---- MODULE Spec2Model ----
(***************************************************************************)
(* Model of the ingestion and query orchestrators of the intelligent       *)
(* query-retrieval system (src/app/services/query_service.py) together     *)
(* with the thin services they call: the document store                    *)
(* (mongodb_service.py), the vector index (vector_db_service.py), the      *)
(* embedding client (embedding_service.py) and the generative-model        *)
(* client with its response parser (llm_service.py).                       *)
(*                                                                         *)
(* Every external call (driver, SDK, file parser) is one atomic step that  *)
(* either succeeds or raises; the awaits between them are the points where *)
(* concurrent requests interleave.                                         *)
(***************************************************************************)
EXTENDS Integers, Sequences, FiniteSets, TLC

VARIABLES
    clock,       \* the wall clock read by time.time()
    pc,          \* per ingestion run: the next step of process_document
    run,         \* per ingestion run: its locals (document_id, filename, domain, n)
    batch_i,     \* per ingestion run: loop variable i of upsert_embeddings
    calls,       \* per ingestion run: the external calls made so far, in
                 \* order, each with whether it returned
    upserts,     \* per ingestion run: the batches passed to index.upsert in
                 \* call order, each as the chunk ordinals of its first and
                 \* last vector and its length
    err,         \* per ingestion run: the exception caught at line 89 ("none" if none)
    cleanupErr,  \* per ingestion run: the exception swallowed at line 95-96
    attempted,   \* per ingestion run: the compensation deletes that were called
    raised,      \* per ingestion run: the exception delivered to the caller
    result,      \* per ingestion run: the value returned to the caller
    documents,   \* db.documents: sequence of records in insertion order
    chunks,      \* db.chunks: set of chunk records
    vindex,      \* the vector index: set of entries keyed by id
    dpc,         \* delete_document request: its next step
    dtarget,     \* delete_document request: its document_id argument
    dresult,     \* outcome of the delete_document request
    dquiet,      \* whether no ingestion of dtarget was running when it arrived
    upload_response, \* per upload: the HTTP response of a rejected upload
    chunking,    \* a create_chunks call: its arguments and its return value
    qpc,         \* query request: the next step of query_documents
    req,         \* query request: the QueryRequest
    query_response, \* query request: the index.query call and its matches
    retrieved,   \* query request: retrieved_chunks
    llmCalls,    \* query request: number of generate_content calls made
    qcalls,      \* query request: the external calls made so far, in order,
                 \* each with whether it returned
    context,     \* query request: the context block built for the model
    llmText,     \* query request: the text the generative model returned
    analysis,    \* query request: answer and decision_rationale (lines 122-139)
    response,    \* query request: the QueryResponse assembled at line 144
    logErr,      \* query request: the exception log_query swallowed
    qerr,        \* query request: the exception delivered to the caller
    returned,    \* query request: the value returned to the caller
    queries      \* db.queries: the query log

ivars == <<clock, pc, run, batch_i, upserts, calls, err, cleanupErr, attempted, raised, result>>
stores == <<documents, chunks, vindex>>
dvars == <<dpc, dtarget, dresult, dquiet>>
uvars == <<upload_response>>
fvars == <<chunking>>
qvars == <<qpc, req, qcalls, query_response, retrieved, llmCalls, context, llmText, analysis, response, logErr,
           qerr, returned, queries>>

-----------------------------------------------------------------------------
(* Bounds of the model *)

\* the largest number of chunks the splitter returns for one document
MaxChunks == 101

(* Program constants *)

\* batch_size of upsert_embeddings
BatchSize == 100

Procs == {"p1", "p2"}
\* the upload requests issued: a supported and an unsupported file
Uploads == {[filename |-> "a.pdf", domain |-> "insurance"],
            [filename |-> "b.txt", domain |-> "legal"]}
ChunkCounts == {0, 1, MaxChunks}

NoId == <<"", -1>>
NoRun == [document_id |-> NoId, filename |-> "", domain |-> "", n |-> 0]

Min(a, b) == IF a < b THEN a ELSE b

-----------------------------------------------------------------------------
(* Pure helpers of process_document *)

\* hashlib.md5(f"{filename}_{time.time()}").hexdigest(): the digest is modelled
\* by the pair it is computed from
DocumentId(filename, t) == <<filename, t>>

\* filename.lower().split('.')[-1]
FileExtension(filename) ==
    CASE filename = "a.pdf" -> "pdf"
      [] filename = "b.txt" -> "txt"
      [] OTHER -> ""

\* the branches of lines 39-47 that call an extractor
SupportedExtensions == {"pdf", "docx", "eml", "msg"}

\* DocumentMetadata(..., processed=False) as stored by store_document_metadata
NewDocumentMetadata_processed(r) ==
    [document_id |-> r.document_id, filename |-> r.filename,
     domain |-> r.domain, processed |-> TRUE]

NewDocumentMetadata(r) ==
    [document_id |-> r.document_id, filename |-> r.filename,
     domain |-> r.domain, processed |-> FALSE]

\* chunk_id = md5(f"{document_id}_{i}_{chunk_text[:50]}"): modelled by the pair
ChunkId(document_id, i) == <<document_id, i>>

\* the DocumentChunk records create_chunks builds for indexes lo..hi-1
ChunkRecords(document_id, lo, hi) ==
    {[chunk_id |-> ChunkId(document_id, i), document_id |-> document_id,
      chunk_index |-> i] : i \in lo..(hi - 1)}

\* the embedding of the content of the chunk of ordinal i (one embed_content
\* call per chunk text), named by that ordinal
Embedding(i) == i

\* the vectors upsert_embeddings builds for indexes lo..hi-1 (one per zip pair)
VectorEntries(document_id, lo, hi) ==
    {[id |-> ChunkId(document_id, i), values |-> Embedding(i),
      document_id |-> document_id, chunk_index |-> i] : i \in lo..(hi - 1)}

\* the embeddings paired with the chunks in reverse order
Vectors_misaligned(document_id, n) ==
    [k \in 1..n |-> [id |-> ChunkId(document_id, k - 1),
                     values |-> Embedding(n - k),
                     document_id |-> document_id, chunk_index |-> k - 1]]

\* lines 42-54: the list `vectors`, one per chunk/embedding pair, in order;
\* embeddings[k] was computed from chunk_texts[k] (query_service.py:72-73)
Vectors(document_id, n) ==
    [k \in 1..n |-> [id |-> ChunkId(document_id, k - 1),
                     values |-> Embedding(k - 1),
                     document_id |-> document_id, chunk_index |-> k - 1]]

\* a slice one element longer than batch_size
UpsertBatch_overlong(vectors, i) ==
    SubSeq(vectors, i + 1, Min(i + BatchSize + 1, Len(vectors)))

\* line 59: vectors[i:i + batch_size]
UpsertBatch(vectors, i) ==
    SubSeq(vectors, i + 1, Min(i + BatchSize, Len(vectors)))

\* the elements of a sequence
SeqRange(s) == {s[i] : i \in 1..Len(s)}

\* index.upsert: insert-or-replace by id
UpsertInto(index, batch) ==
    {e \in index : \A b \in batch : b.id # e.id} \cup batch

\* the exception re-raised by the bare raise of line 97 after the inner
\* try/except of lines 92-96 swallowed a compensation failure
ReRaised_masked(e, swallowed) == IF swallowed # "none" THEN swallowed ELSE e

ReRaised(e, swallowed) == e

-----------------------------------------------------------------------------
(* Collection operations of the document store *)

Indexes(s) == 1..Len(s)

FirstMatch(docs, id) ==
    IF \E k \in Indexes(docs) : docs[k].document_id = id
    THEN CHOOSE k \in Indexes(docs) :
            /\ docs[k].document_id = id
            /\ \A j \in 1..(k - 1) : docs[j].document_id # id
    ELSE 0

\* documents_collection.delete_one({"document_id": id})
DeleteOne(docs, id) ==
    LET k == FirstMatch(docs, id) IN
    IF k = 0 THEN docs
    ELSE [j \in 1..(Len(docs) - 1) |-> IF j < k THEN docs[j] ELSE docs[j + 1]]

\* documents_collection.update_one({"document_id": id}, {"$set": {"processed": v}})
UpdateOne(docs, id, v) ==
    LET k == FirstMatch(docs, id) IN
    IF k = 0 THEN docs
    ELSE [docs EXCEPT ![k].processed = v]

\* chunks_collection.delete_many({"document_id": id})
DeleteMany(cs, id) == {c \in cs : c.document_id # id}

\* index.delete without the document_id filter: every vector goes
DeleteByFilter_unfiltered(index, id) == {}

\* index.delete(filter={"document_id": id})
DeleteByFilter(index, id) == {e \in index : e.document_id # id}

Records(docs) == {docs[k] : k \in Indexes(docs)}

-----------------------------------------------------------------------------
(* process_document *)

\* one more external call of run p, returned (ok) or raised
Called(p, name, ok) ==
    calls' = [calls EXCEPT ![p] = Append(@, [call |-> name, ok |-> ok])]

Returned(name) == [call |-> name, ok |-> TRUE]

\* the calls of lines 38-69 when each returned
CallsBeforeUpsert ==
    <<Returned("extract"), Returned("store_document_metadata"),
      Returned("create_chunks")>>

Fail(p, e) ==
    /\ err' = [err EXCEPT ![p] = e]
    /\ pc' = [pc EXCEPT ![p] = "cleanup_doc"]

\* the locals of a process_document call that has computed line 32
NewRun(u, t) ==
    [document_id |-> DocumentId(u.filename, t),
     filename |-> u.filename, domain |-> u.domain, n |-> 0]

\* lines 28-36: the identity and the extension
Start(p) ==
    /\ pc[p] = "idle"
    /\ \E u \in Uploads : run' = [run EXCEPT ![p] = NewRun(u, clock)]
    /\ clock' = clock + 1
    /\ pc' = [pc EXCEPT ![p] = "extract"]
    /\ UNCHANGED <<batch_i, upserts, calls, err, cleanupErr, attempted, raised,
                   result>>
    /\ UNCHANGED <<stores, dvars, qvars, uvars, fvars>>

\* an extraction whose failure does not stop the run
Extract_continuing(p) ==
    /\ pc[p] = "extract"
    /\ \E ok \in BOOLEAN : Called(p, "extract", ok)
    /\ pc' = [pc EXCEPT ![p] = "store_metadata"]
    /\ UNCHANGED <<clock, run, batch_i, upserts, err, cleanupErr, attempted,
                   raised, result>>
    /\ UNCHANGED <<stores, dvars, qvars, uvars, fvars>>

\* lines 38-47: the extractor of the extension, or ValueError
Extract(p) ==
    /\ pc[p] = "extract"
    /\ \/ /\ FileExtension(run[p].filename) \in SupportedExtensions
          /\ Called(p, "extract", TRUE)
          /\ pc' = [pc EXCEPT ![p] = "store_metadata"]
          /\ UNCHANGED err
       \/ /\ FileExtension(run[p].filename) \in SupportedExtensions
          /\ Called(p, "extract", FALSE)
          /\ Fail(p, "extract")
       \/ /\ FileExtension(run[p].filename) \notin SupportedExtensions
          /\ Fail(p, "unsupported_file_type")
          /\ UNCHANGED calls
    /\ UNCHANGED <<clock, run, batch_i, upserts, cleanupErr, attempted, raised, result>>
    /\ UNCHANGED <<stores, dvars, qvars, uvars, fvars>>

\* lines 49-62: store_document_metadata (insert_one)
StoreMetadata(p) ==
    /\ pc[p] = "store_metadata"
    /\ \/ /\ documents' = Append(documents, NewDocumentMetadata(run[p]))
          /\ Called(p, "store_document_metadata", TRUE)
          /\ pc' = [pc EXCEPT ![p] = "create_chunks"]
          /\ UNCHANGED err
       \/ /\ Fail(p, "store_document_metadata")
          /\ Called(p, "store_document_metadata", FALSE)
          /\ UNCHANGED documents
    /\ UNCHANGED <<clock, run, batch_i, upserts, cleanupErr, attempted, raised, result>>
    /\ UNCHANGED <<chunks, vindex, dvars, qvars, uvars, fvars>>

\* lines 64-69: create_chunks; the splitter decides the number of chunks
CreateChunks(p) ==
    /\ pc[p] = "create_chunks"
    /\ \/ /\ \E n \in ChunkCounts : run' = [run EXCEPT ![p].n = n]
          /\ Called(p, "create_chunks", TRUE)
          /\ pc' = [pc EXCEPT ![p] = "create_embeddings"]
          /\ UNCHANGED err
       \/ /\ Fail(p, "create_chunks")
          /\ Called(p, "create_chunks", FALSE)
          /\ UNCHANGED run
    /\ UNCHANGED <<clock, batch_i, upserts, cleanupErr, attempted, raised, result>>
    /\ UNCHANGED <<stores, dvars, qvars, uvars, fvars>>

\* lines 71-73: create_embeddings, one embed_content call per chunk text
CreateEmbeddings(p) ==
    /\ pc[p] = "create_embeddings"
    /\ \/ /\ pc' = [pc EXCEPT ![p] = "upsert_embeddings"]
          /\ IF run[p].n > 0 THEN Called(p, "embed_content", TRUE)
                           ELSE UNCHANGED calls
          /\ UNCHANGED err
       \/ /\ run[p].n > 0
          /\ Called(p, "embed_content", FALSE)
          /\ Fail(p, "create_embeddings")
    /\ batch_i' = [batch_i EXCEPT ![p] = 0]
    /\ upserts' = [upserts EXCEPT ![p] = <<>>]
    /\ UNCHANGED <<clock, run, cleanupErr, attempted, raised, result>>
    /\ UNCHANGED <<stores, dvars, qvars, uvars, fvars>>

\* line 76 and upsert_embeddings lines 56-60: one index.upsert per batch
UpsertEmbeddings(p) ==
    /\ pc[p] = "upsert_embeddings"
    /\ \/ /\ batch_i[p] >= run[p].n
          /\ pc' = [pc EXCEPT ![p] = "store_chunks"]
          /\ UNCHANGED <<err, batch_i, upserts, calls, vindex>>
       \/ /\ batch_i[p] < run[p].n
          /\ LET batch == UpsertBatch(Vectors(run[p].document_id, run[p].n),
                                      batch_i[p])
             IN  /\ vindex' = UpsertInto(vindex, SeqRange(batch))
                 /\ upserts' = [upserts EXCEPT ![p] =
                       Append(@, [first |-> batch[1].chunk_index,
                                  last |-> batch[Len(batch)].chunk_index,
                                  len |-> Len(batch)])]
          /\ batch_i' = [batch_i EXCEPT ![p] = batch_i[p] + BatchSize]
          /\ Called(p, "index.upsert", TRUE)
          /\ UNCHANGED <<pc, err>>
       \/ /\ batch_i[p] < run[p].n
          /\ Called(p, "index.upsert", FALSE)
          /\ Fail(p, "upsert_embeddings")
          /\ UNCHANGED <<batch_i, upserts, vindex>>
    /\ UNCHANGED <<clock, run, cleanupErr, attempted, raised, result>>
    /\ UNCHANGED <<documents, chunks, dvars, qvars, uvars, fvars>>

\* a prefix an ordered insert_many leaves behind when it raises
PartialInserts(n) == {k \in {0, 1} : k <= n}

\* store_document_chunks left out for an empty chunk list
StoreChunks_skipping_empty(p) ==
    /\ pc[p] = "store_chunks"
    /\ \/ /\ chunks' = chunks \cup ChunkRecords(run[p].document_id, 0, run[p].n)
          /\ IF run[p].n > 0 THEN Called(p, "store_document_chunks", TRUE)
                           ELSE UNCHANGED calls
          /\ pc' = [pc EXCEPT ![p] = "update_status"]
          /\ UNCHANGED err
       \/ /\ run[p].n > 0
          /\ \E k \in PartialInserts(run[p].n) :
                chunks' = chunks \cup ChunkRecords(run[p].document_id, 0, k)
          /\ Called(p, "store_document_chunks", FALSE)
          /\ Fail(p, "store_document_chunks")
    /\ UNCHANGED <<clock, run, batch_i, upserts, cleanupErr, attempted, raised, result>>
    /\ UNCHANGED <<documents, vindex, dvars, qvars, uvars, fvars>>

\* line 79: store_document_chunks (insert_many)
StoreChunks(p) ==
    /\ pc[p] = "store_chunks"
    /\ \/ /\ chunks' = chunks \cup ChunkRecords(run[p].document_id, 0, run[p].n)
          /\ Called(p, "store_document_chunks", TRUE)
          /\ pc' = [pc EXCEPT ![p] = "update_status"]
          /\ UNCHANGED err
       \/ /\ \E k \in PartialInserts(run[p].n) :
                chunks' = chunks \cup ChunkRecords(run[p].document_id, 0, k)
          /\ Called(p, "store_document_chunks", FALSE)
          /\ Fail(p, "store_document_chunks")
    /\ UNCHANGED <<clock, run, batch_i, upserts, cleanupErr, attempted, raised, result>>
    /\ UNCHANGED <<documents, vindex, dvars, qvars, uvars, fvars>>

\* lines 82-87: update_document_processed_status, then return document_id
UpdateStatus(p) ==
    /\ pc[p] = "update_status"
    /\ \/ /\ documents' = UpdateOne(documents, run[p].document_id, TRUE)
          /\ pc' = [pc EXCEPT ![p] = "done"]
          /\ result' = [result EXCEPT ![p] = run[p].document_id]
          /\ Called(p, "update_document_processed_status", TRUE)
          /\ UNCHANGED err
       \/ /\ Fail(p, "update_document_processed_status")
          /\ Called(p, "update_document_processed_status", FALSE)
          /\ UNCHANGED <<documents, result>>
    /\ UNCHANGED <<clock, run, batch_i, upserts, cleanupErr, attempted, raised>>
    /\ UNCHANGED <<chunks, vindex, dvars, qvars, uvars, fvars>>

\* leaving the except block: lines 95-97
Raise(p, swallowed) ==
    /\ cleanupErr' = [cleanupErr EXCEPT ![p] = swallowed]
    /\ raised' = [raised EXCEPT ![p] = ReRaised(err[p], swallowed)]
    /\ pc' = [pc EXCEPT ![p] = "failed"]

\* line 93, mongodb.delete_document line 87: documents_collection.delete_one
CleanupDocument(p) ==
    /\ pc[p] = "cleanup_doc"
    /\ attempted' = [attempted EXCEPT ![p] = @ \cup {"delete_document"}]
    /\ \/ /\ documents' = DeleteOne(documents, run[p].document_id)
          /\ Called(p, "delete_one", TRUE)
          /\ pc' = [pc EXCEPT ![p] = "cleanup_chunks"]
          /\ UNCHANGED <<cleanupErr, raised>>
       \/ /\ Raise(p, "delete_document")
          /\ Called(p, "delete_one", FALSE)
          /\ UNCHANGED documents
    /\ UNCHANGED <<clock, run, batch_i, upserts, err, result>>
    /\ UNCHANGED <<chunks, vindex, dvars, qvars, uvars, fvars>>

\* mongodb.delete_document line 88: chunks_collection.delete_many
CleanupChunks(p) ==
    /\ pc[p] = "cleanup_chunks"
    /\ \/ /\ chunks' = DeleteMany(chunks, run[p].document_id)
          /\ Called(p, "delete_many", TRUE)
          /\ pc' = [pc EXCEPT ![p] = "cleanup_vectors"]
          /\ UNCHANGED <<cleanupErr, raised>>
       \/ /\ Raise(p, "delete_document")
          /\ Called(p, "delete_many", FALSE)
          /\ UNCHANGED chunks
    /\ UNCHANGED <<clock, run, batch_i, upserts, err, attempted, result>>
    /\ UNCHANGED <<documents, vindex, dvars, qvars, uvars, fvars>>

\* line 94: delete_document_embeddings (index.delete by filter), then line 97
CleanupVectors(p) ==
    /\ pc[p] = "cleanup_vectors"
    /\ attempted' = [attempted EXCEPT ![p] = @ \cup {"delete_document_embeddings"}]
    /\ \/ /\ vindex' = DeleteByFilter(vindex, run[p].document_id)
          /\ Called(p, "index.delete", TRUE)
          /\ Raise(p, "none")
       \/ /\ Raise(p, "delete_document_embeddings")
          /\ Called(p, "index.delete", FALSE)
          /\ UNCHANGED vindex
    /\ UNCHANGED <<clock, run, batch_i, upserts, err, result>>
    /\ UNCHANGED <<documents, chunks, dvars, qvars, uvars, fvars>>

\* the steps of a call after line 32
ProcessSteps(p) ==
    \/ Extract(p)
    \/ StoreMetadata(p)
    \/ CreateChunks(p)
    \/ CreateEmbeddings(p)
    \/ UpsertEmbeddings(p)
    \/ StoreChunks(p)
    \/ UpdateStatus(p)
    \/ CleanupDocument(p)
    \/ CleanupChunks(p)
    \/ CleanupVectors(p)

ProcessDocument(p) == Start(p) \/ ProcessSteps(p)

-----------------------------------------------------------------------------
(* DocumentProcessor.create_chunks *)

\* texts are sequences of characters
MaxSegments == 11
PrefixLen == 50

\* text[:k]
Take(text, k) == SubSeq(text, 1, Min(k, Len(text)))

Pad == [k \in 1..PrefixLen |-> "x"]

\* segments the splitter can return: short ones made of the characters of
\* the identity string, and two longer than 50 characters that differ only
\* after the 50th
Texts ==
    {<<"0">>, <<"0", "0">>, <<"0", "_">>, <<"_", "0">>, <<"a">>,
     Pad \o <<"a">>, Pad \o <<"b">>}

\* hexdigest(): lower-case hexadecimal strings of one fixed length
HexDigests == {<<"a", "1">>, <<"1", "a">>, <<"1", "0">>}

\* str(i) for i >= 0
RECURSIVE Decimal(_)
Decimal(i) ==
    LET d == <<"0", "1", "2", "3", "4", "5", "6", "7", "8", "9">>[(i % 10) + 1]
    IN  IF i < 10 THEN <<d>> ELSE Decimal(i \div 10) \o <<d>>

\* the same string without its separators
HashInput_unseparated(document_id, i, chunk_text) ==
    document_id \o Decimal(i) \o Take(chunk_text, PrefixLen)

\* line 110: f"{document_id}_{i}_{chunk_text[:50]}"
HashInput(document_id, i, chunk_text) ==
    document_id \o <<"_">> \o Decimal(i) \o <<"_">> \o Take(chunk_text, PrefixLen)

\* hashlib.md5(...).hexdigest(), taken as collision-free
Md5(input) == <<"md5", input>>

\* lines 112-122: one DocumentChunk
DocumentChunk(document_id, i, chunk_text, metadata) ==
    [chunk_id |-> Md5(HashInput(document_id, i, chunk_text)),
     document_id |-> document_id,
     content |-> chunk_text,
     chunk_index |-> i,
     metadata |-> [chunk_length |-> Len(chunk_text), chunk_position |-> i]
                  @@ metadata]

\* enumerate counting from 1
create_chunks_from_one(segments, document_id, metadata) ==
    [k \in 1..Len(segments) |->
        DocumentChunk(document_id, k, segments[k], metadata)]

\* lines 106-125: for i, chunk_text in enumerate(chunks)
create_chunks(segments, document_id, metadata) ==
    [k \in 1..Len(segments) |->
        DocumentChunk(document_id, k - 1, segments[k], metadata)]

\* extraction metadata handed to create_chunks (process_pdf's)
ExtractionMetadata == [total_pages |-> 1, extraction_method |-> "PyPDF2"]

NoChunking ==
    [called |-> FALSE, returned |-> FALSE, document_id |-> <<>>,
     segments |-> <<>>, document_chunks |-> <<>>]

\* what split_text can return: up to MaxSegments segments
SplitTexts ==
    {<<>>} \cup
    UNION {{[k \in 1..n |-> IF k = j THEN t ELSE <<"a">>] : j \in 1..n, t \in Texts} :
           n \in 1..MaxSegments}

\* line 106 has returned `chunks` for some document
SplitText ==
    /\ ~chunking.called
    /\ \E id \in HexDigests, segments \in SplitTexts :
          chunking' = [NoChunking EXCEPT !.called = TRUE, !.document_id = id,
                                         !.segments = segments]
    /\ UNCHANGED <<ivars, stores, dvars, qvars, uvars>>

\* lines 107-125
CreateChunksCall ==
    /\ chunking.called
    /\ ~chunking.returned
    /\ chunking' =
          [chunking EXCEPT
             !.returned = TRUE,
             !.document_chunks = create_chunks(chunking.segments,
                                               chunking.document_id,
                                               ExtractionMetadata)]
    /\ UNCHANGED <<ivars, stores, dvars, qvars, uvars>>

-----------------------------------------------------------------------------
(* main.upload_document *)

\* line 45: os.path.splitext(file.filename)[1].lower()
SplitExt(filename) ==
    CASE filename = "a.pdf" -> ".pdf"
      [] filename = "b.txt" -> ".txt"
      [] OTHER -> ""

\* line 44
allowed_extensions == {".pdf", ".docx", ".eml", ".msg"}

\* HTTPException(status_code, detail); a detail is its fixed text and the
\* extensions it prints
HTTPException(status_code, text, extensions) ==
    [status_code |-> status_code,
     detail |-> [text |-> text, extensions |-> extensions]]

NoHTTPResponse == HTTPException(0, "", {})

\* lines 49-52: the exception raised for a rejected extension
UnsupportedFileType(file_extension) ==
    HTTPException(400, "Unsupported file type. Allowed:", allowed_extensions)

\* lines 78-80: except Exception as e: raise HTTPException(500, detail=str(e))
UploadExcept(e) ==
    HTTPException(500, e.detail.text, e.detail.extensions)

\* lines 37-80: a rejected extension is answered at once; any other upload
\* enters process_document (lines 62-66), whose steps follow
UploadDocument(p) ==
    /\ pc[p] = "idle"
    /\ \E u \in Uploads :
          \/ /\ SplitExt(u.filename) \notin allowed_extensions
             /\ upload_response' =
                  [upload_response EXCEPT ![p] =
                     UploadExcept(UnsupportedFileType(SplitExt(u.filename)))]
             /\ pc' = [pc EXCEPT ![p] = "rejected"]
             /\ UNCHANGED <<clock, run>>
          \/ /\ SplitExt(u.filename) \in allowed_extensions
             /\ run' = [run EXCEPT ![p] = NewRun(u, clock)]
             /\ clock' = clock + 1
             /\ pc' = [pc EXCEPT ![p] = "extract"]
             /\ UNCHANGED upload_response
    /\ UNCHANGED <<batch_i, upserts, calls, err, cleanupErr, attempted, raised,
                   result>>
    /\ UNCHANGED <<stores, dvars, qvars, fvars>>

-----------------------------------------------------------------------------
(* QueryService.delete_document *)

\* the identities a delete request can name: those the service generated
KnownIds ==
    {run[p].document_id : p \in {q \in Procs : pc[q] \notin {"idle", "rejected"}}}

DeleteRequest ==
    /\ dpc = "idle"
    /\ \E id \in KnownIds :
          /\ dtarget' = id
          /\ dquiet' = \A p \in Procs :
                          run[p].document_id = id => pc[p] \in {"done", "failed"}
    /\ dpc' = "delete_doc"
    /\ dresult' = "none"
    /\ UNCHANGED <<qvars, uvars, fvars, ivars, stores>>

\* line 174, mongodb.delete_document line 87
DeleteDoc ==
    /\ dpc = "delete_doc"
    /\ \/ /\ documents' = DeleteOne(documents, dtarget)
          /\ dpc' = "delete_chunks"
          /\ UNCHANGED dresult
       \/ /\ dpc' = "returned"
          /\ dresult' = "error"
          /\ UNCHANGED documents
    /\ UNCHANGED <<qvars, uvars, fvars, ivars, chunks, vindex, dtarget, dquiet>>

\* delete_many's failure swallowed instead of re-raised (lines 90-92)
DeleteChunks_swallowing ==
    /\ dpc = "delete_chunks"
    /\ \/ chunks' = DeleteMany(chunks, dtarget)
       \/ UNCHANGED chunks
    /\ dpc' = "delete_vectors"
    /\ UNCHANGED <<qvars, uvars, fvars, ivars, documents, vindex, dtarget, dquiet, dresult>>

\* mongodb.delete_document line 88
DeleteChunks ==
    /\ dpc = "delete_chunks"
    /\ \/ /\ chunks' = DeleteMany(chunks, dtarget)
          /\ dpc' = "delete_vectors"
          /\ UNCHANGED dresult
       \/ /\ dpc' = "returned"
          /\ dresult' = "error"
          /\ UNCHANGED chunks
    /\ UNCHANGED <<qvars, uvars, fvars, ivars, documents, vindex, dtarget, dquiet>>

\* line 175: delete_document_embeddings
DeleteVectors ==
    /\ dpc = "delete_vectors"
    /\ \/ /\ vindex' = DeleteByFilter(vindex, dtarget)
          /\ dresult' = "ok"
       \/ /\ dresult' = "error"
          /\ UNCHANGED vindex
    /\ dpc' = "returned"
    /\ UNCHANGED <<qvars, uvars, fvars, ivars, documents, chunks, dtarget, dquiet>>

DeleteDocument == DeleteRequest \/ DeleteDoc \/ DeleteChunks \/ DeleteVectors

-----------------------------------------------------------------------------
(* The generative model's output and its parser (llm_service.py) *)

\* the longest model output, in tokens, enumerated exhaustively
MaxLen == 3

\* A model output is a sequence of tokens: an opening brace, a closing
\* brace, prose, or one well-formed member ("key": value with its separator).
Tok(t, key, val) == [t |-> t, key |-> key, val |-> val]

\* JSON values: a kind, and the number, text or items the kind carries.
\* Numbers are in tenths (8 is 0.8).
Val(kind, num, str, items) ==
    [kind |-> kind, num |-> num, str |-> str, items |-> items]
Str(s) == Val("str", 0, s, <<>>)
NumStr(n) == Val("numstr", n, "numeric text", <<>>)
Num(n) == Val("num", n, "", <<>>)
Null == Val("null", 0, "", <<>>)
ListStr(items) == Val("list_str", 0, "", items)
ListNum == Val("list_num", 0, "", <<>>)

LB == Tok("{", "", Null)
RB == Tok("}", "", Null)
Prose == Tok("x", "", Null)
Member(key, val) == Tok("m", key, val)

Keys == {"answer", "reasoning", "confidence_score", "supporting_evidence",
         "conditions", "limitations"}
JsonValues == {Str("text"), NumStr(8), Num(5), Num(15), Null,
               ListStr(<<"item">>), ListNum}
Members == {Member(k, v) : k \in Keys, v \in JsonValues}

SeqsUpTo(S, n) == UNION {[1..k -> S] : k \in 0..n}

\* every text of at most MaxLen tokens over braces, prose and one member
ShapeTexts == SeqsUpTo({LB, RB, Prose, Member("answer", Str("text"))}, MaxLen)

\* JSON objects with one member of every key and value kind, bare and wrapped
\* in prose, and objects pairing every answer with every confidence_score
TypedTexts ==
    {<<LB, m, RB>> : m \in Members}
    \cup {<<Prose, LB, m, RB, Prose>> :
            m \in {Member(k, Null) : k \in Keys}}
    \cup {<<LB, Member("answer", a), Member("confidence_score", c), RB>> :
            a \in JsonValues, c \in JsonValues}

LLMTexts == ShapeTexts \cup TypedTexts

\* str.find: the lowest 0-based index of tok, or -1
Find(text, tok) ==
    IF \E i \in 1..Len(text) : text[i] = tok
    THEN (CHOOSE i \in 1..Len(text) :
            /\ text[i] = tok
            /\ \A j \in 1..(i - 1) : text[j] # tok) - 1
    ELSE -1

\* str.rfind: the highest 0-based index of tok, or -1
RFind(text, tok) ==
    IF \E i \in 1..Len(text) : text[i] = tok
    THEN (CHOOSE i \in 1..Len(text) :
            /\ text[i] = tok
            /\ \A j \in (i + 1)..Len(text) : text[j] # tok) - 1
    ELSE -1

\* response[a:b] for 0 <= a, 0 <= b
Slice(text, a, b) == SubSeq(text, a + 1, b)

\* json.loads succeeds: one object, opened and closed, holding only members
JsonLoadsOk(s) ==
    /\ Len(s) >= 2
    /\ s[1] = LB
    /\ s[Len(s)] = RB
    /\ \A i \in 2..(Len(s) - 1) : s[i].t = "m"

\* parsed.get(key, default) on the dict json.loads builds (the last member of
\* a repeated key wins)
Get(s, key, default) ==
    IF \E i \in 2..(Len(s) - 1) : s[i].key = key
    THEN s[CHOOSE i \in 2..(Len(s) - 1) :
            /\ s[i].key = key
            /\ \A j \in (i + 1)..(Len(s) - 1) : s[j].key # key].val
    ELSE default

\* float(v) does not raise
FloatOk(v) == v.kind \in {"num", "numstr"}

\* a field declared str accepts v
IsStr(v) == v.kind \in {"str", "numstr"}

\* a field declared List[str] accepts v
IsStrList(v) == v.kind = "list_str"

DecisionRationale(reasoning, confidence, evidence, conditions, limitations) ==
    [reasoning |-> reasoning, confidence_score |-> confidence,
     supporting_evidence |-> evidence, conditions |-> conditions,
     limitations |-> limitations]

\* the except branch of _parse_llm_response
FallbackAnalysis ==
    [answer |-> Str("Error processing response"),
     decision_rationale |->
        DecisionRationale("Unable to parse LLM response", 0, <<>>, <<>>,
                          <<"Response parsing failed">>),
     additional_considerations |-> Str("")]

\* the try branch of _parse_llm_response once json.loads returned
Structured(s) ==
    LET reasoning == Get(s, "reasoning", Str("No reasoning provided"))
        confidence == Get(s, "confidence_score", Num(0))
        evidence == Get(s, "supporting_evidence", ListStr(<<>>))
        conditions == Get(s, "conditions", ListStr(<<>>))
        limitations == Get(s, "limitations", ListStr(<<>>))
    IN  IF /\ FloatOk(confidence)
           /\ IsStr(reasoning)
           /\ IsStrList(evidence)
           /\ IsStrList(conditions)
           /\ IsStrList(limitations)
        THEN [answer |-> Get(s, "answer", Str("Unable to provide answer")),
              decision_rationale |->
                 DecisionRationale(reasoning.str, confidence.num,
                                   evidence.items, conditions.items,
                                   limitations.items),
              additional_considerations |->
                 Get(s, "additional_considerations", Str(""))]
        ELSE FallbackAnalysis

_parse_llm_response_unchecked(text) ==
    LET start_idx == Find(text, LB)
        end_idx == RFind(text, RB) + 1
        json_str == IF start_idx = -1 THEN <<>>
                    ELSE Slice(text, start_idx, end_idx)
    IN  IF JsonLoadsOk(json_str) THEN Structured(json_str)
        ELSE Structured(<<LB, RB>>)

_parse_llm_response(text) ==
    LET start_idx == Find(text, LB)
        end_idx == RFind(text, RB) + 1
    IN  IF start_idx = -1 \/ end_idx = 0 THEN FallbackAnalysis
        ELSE LET json_str == Slice(text, start_idx, end_idx)
             IN  IF JsonLoadsOk(json_str) THEN Structured(json_str)
                 ELSE FallbackAnalysis

-----------------------------------------------------------------------------
(* The vector index as query_documents uses it *)

\* the metadata upsert_embeddings stores with a vector (lines 44-53): the
\* document identity, the chunk index and chunk.metadata, that is the
\* extractor's bag plus chunk_position (content and lengths are left out)
VectorMetadata(e) ==
    [document_id |-> e.document_id, content |-> <<"content", e.id>>,
     chunk_index |-> e.chunk_index,
     chunk_position |-> e.chunk_index, extraction_method |-> "PyPDF2"]

NoDomain == "None"
NoDocumentIds == [given |-> FALSE, ids |-> <<>>]
DocumentIds(ids) == [given |-> TRUE, ids |-> ids]

\* filter_dict with the constraint added for any list that is not None
FilterDict_any_given(r) ==
    (IF r.domain # NoDomain THEN [domain |-> r.domain] ELSE <<>>)
    @@ (IF r.document_ids.given
        THEN [document_id |-> SeqRange(r.document_ids.ids)] ELSE <<>>)

\* lines 108-112: filter_dict
FilterDict(r) ==
    (IF r.domain # NoDomain THEN [domain |-> r.domain] ELSE <<>>)
    @@ (IF r.document_ids.given /\ r.document_ids.ids # <<>>
        THEN [document_id |-> SeqRange(r.document_ids.ids)] ELSE <<>>)

\* the empty dictionary passed on as the filter
SearchFilter_always_present(r) == [present |-> TRUE, dict |-> FilterDict(r)]

\* line 118: filter_dict if filter_dict else None
SearchFilter(r) ==
    LET filter_dict == FilterDict(r)
    IN  [present |-> DOMAIN filter_dict # {}, dict |-> filter_dict]

\* the index's metadata filter: equality on domain, $in on document_id
Matches(e, filter) ==
    LET meta == VectorMetadata(e) IN
    \/ ~filter.present
    \/ /\ "domain" \in DOMAIN filter.dict =>
             /\ "domain" \in DOMAIN meta
             /\ meta["domain"] = filter.dict["domain"]
       /\ "document_id" \in DOMAIN filter.dict =>
             meta["document_id"] \in filter.dict["document_id"]

\* similarity scores the index reports, in hundredths
Scores == {35, 90}

\* one element of query_response.matches
Match(e, score) == [id |-> e.id, score |-> score, metadata |-> VectorMetadata(e)]

\* float(match.score): the index's score is already a float
Float(score) == score

\* a result whose score is rescaled to the best score of the index
RetrievalResult_normalised(match) ==
    [chunk_id |-> match.id, document_id |-> match.metadata.document_id,
     content |-> match.metadata.content,
     relevance_score |-> (Float(match.score) * 100) \div 90,
     metadata |-> match.metadata]

\* RetrievalResult built from a match (lines 82-88)
RetrievalResult(match) ==
    [chunk_id |-> match.id, document_id |-> match.metadata.document_id,
     content |-> match.metadata.content,
     relevance_score |-> Float(match.score), metadata |-> match.metadata]

\* what index.query may return: at most top_k distinct matching entries, best
\* score first
QueryMatches(index, filter, top_k) ==
    LET M == {e \in index : Matches(e, filter)}
        S == {s \in SeqsUpTo(M, Min(top_k, Cardinality(M))) :
                \A i, j \in 1..Len(s) : i # j => s[i] # s[j]}
    IN  UNION {{[i \in 1..Len(s) |-> Match(s[i], sc[i])] :
                    sc \in {q \in [1..Len(s) -> Scores] :
                              \A i, j \in 1..Len(s) : i < j => q[i] >= q[j]}} :
               s \in S}

\* f"{relevance_score:.3f}": a score in hundredths printed in thousandths
Format3f(score) == [thousandths |-> score * 10]

\* chunk.metadata.get('filename', 'Unknown')
SourceOf(metadata) ==
    IF "filename" \in DOMAIN metadata THEN metadata["filename"] ELSE "Unknown"

\* lines 42-46: the part of one retrieved chunk
ContextPart(i, chunk) ==
    [document |-> i + 1,
     relevance |-> Format3f(chunk.relevance_score),
     source |-> SourceOf(chunk.metadata),
     content |-> chunk.content]

\* "\n---\n".join(parts): the parts with the delimiter between neighbours
RECURSIVE Join(_, _)
Join(delimiter, parts) ==
    IF Len(parts) <= 1 THEN parts
    ELSE <<Head(parts), delimiter>> \o Join(delimiter, Tail(parts))

\* lines 38-47
_prepare_context(retrieved_chunks) ==
    Join("\n---\n", [k \in 1..Len(retrieved_chunks) |->
                        ContextPart(k - 1, retrieved_chunks[k])])

NoQueryResponse ==
    [made |-> FALSE, filter |-> [present |-> FALSE, dict |-> <<>>],
     top_k |-> 0, matches |-> <<>>, committed |-> {}]

\* the identities whose document record is processed (read at the time of a
\* search, for the record of the call)
ProcessedIds == {r.document_id : r \in {x \in Records(documents) : x.processed}}

-----------------------------------------------------------------------------
(* query_documents *)

QueryRequests ==
    [domain : {NoDomain, "insurance"},
     document_ids : {NoDocumentIds, DocumentIds(<<>>),
                     DocumentIds(<<DocumentId("a.pdf", 0)>>)},
     max_results : {1, 2},
     include_explanation : BOOLEAN]

NoRequest ==
    [domain |-> NoDomain, document_ids |-> NoDocumentIds, max_results |-> 0,
     include_explanation |-> FALSE]

NoText == <<>>
NoAnalysis ==
    [answer |-> Null,
     decision_rationale |-> DecisionRationale("", 0, <<>>, <<>>, <<>>),
     additional_considerations |-> Null]
NoResponse ==
    [answer |-> "", decision_rationale |-> NoAnalysis.decision_rationale,
     retrieved_chunks |-> <<>>, valid |-> FALSE]

\* line 122: whether the generative model is consulted
UseLLM_ignoring_flag(r, results) == results # <<>>

UseLLM_ignoring_results(r, results) == r.include_explanation

UseLLM(r, results) == r.include_explanation /\ results # <<>>

\* lines 132-139: the answer and rationale of a query without analysis
BasicAnalysis ==
    [answer |-> Str("Query processed. Retrieved relevant document chunks."),
     decision_rationale |->
        DecisionRationale("Basic retrieval without LLM analysis", 0,
                          <<>>, <<>>, <<>>),
     additional_considerations |-> Str("")]

\* QueryResponse(...) of line 144 validates: answer must be a str
ResponseValid(a) == IsStr(a.answer)

QueryResponse(a, results) ==
    [answer |-> a.answer.str, decision_rationale |-> a.decision_rationale,
     retrieved_chunks |-> results, valid |-> TRUE]

\* one more external call of the query, returned (ok) or raised
QCalled(name, ok) == qcalls' = Append(qcalls, [call |-> name, ok |-> ok])

QFail(e) ==
    /\ qpc' = "failed"
    /\ qerr' = e

\* a request arrives (line 99)
QueryStart ==
    /\ qpc = "idle"
    /\ \E r \in QueryRequests : req' = r
    /\ qpc' = "embed"
    /\ UNCHANGED qcalls
    /\ UNCHANGED <<query_response, retrieved, llmCalls, context, llmText, analysis,
                   response, logErr,
                   qerr, returned, queries>>
    /\ UNCHANGED <<ivars, stores, dvars, uvars, fvars>>

\* a query embedding that is requested once more after it failed
QueryEmbedding_retrying ==
    /\ qpc = "embed"
    /\ \/ /\ qpc' = "search"
          /\ QCalled("create_query_embedding", TRUE)
          /\ UNCHANGED qerr
       \/ /\ qcalls = <<>>
          /\ QCalled("create_query_embedding", FALSE)
          /\ UNCHANGED <<qpc, qerr>>
       \/ /\ qcalls # <<>>
          /\ QFail("create_query_embedding")
          /\ QCalled("create_query_embedding", FALSE)
    /\ UNCHANGED <<req, query_response, retrieved, llmCalls, context, llmText,
                   analysis, response, logErr, returned, queries>>
    /\ UNCHANGED <<ivars, stores, dvars, uvars, fvars>>

\* line 105: create_query_embedding
QueryEmbedding ==
    /\ qpc = "embed"
    /\ \/ /\ qpc' = "search"
          /\ QCalled("create_query_embedding", TRUE)
          /\ UNCHANGED qerr
       \/ /\ QFail("create_query_embedding")
          /\ QCalled("create_query_embedding", FALSE)
    /\ UNCHANGED <<req, query_response, retrieved, llmCalls, context, llmText, analysis,
                   response, logErr, returned, queries>>
    /\ UNCHANGED <<ivars, stores, dvars, uvars, fvars>>

\* a search whose failure is answered with no results instead of raising
SimilaritySearch_degrading ==
    /\ qpc = "search"
    /\ \/ /\ \E s \in QueryMatches(vindex, SearchFilter(req), req.max_results) :
                /\ query_response' =
                      [made |-> TRUE, filter |-> SearchFilter(req),
                       top_k |-> req.max_results, matches |-> s,
                       committed |-> ProcessedIds]
                /\ retrieved' = [i \in 1..Len(s) |-> RetrievalResult(s[i])]
          /\ qpc' = "analyze"
          /\ QCalled("index.query", TRUE)
          /\ UNCHANGED qerr
       \/ /\ qerr' = "similarity_search"
          /\ qpc' = "analyze"
          /\ QCalled("index.query", FALSE)
          /\ UNCHANGED <<query_response, retrieved>>
    /\ UNCHANGED <<req, llmCalls, context, llmText, analysis, response, logErr,
                   returned, queries>>
    /\ UNCHANGED <<ivars, stores, dvars, uvars, fvars>>

\* lines 107-119: the filter and similarity_search
SimilaritySearch ==
    /\ qpc = "search"
    /\ \/ /\ \E s \in QueryMatches(vindex, SearchFilter(req), req.max_results) :
                /\ query_response' =
                      [made |-> TRUE, filter |-> SearchFilter(req),
                       top_k |-> req.max_results, matches |-> s,
                       committed |-> ProcessedIds]
                /\ retrieved' = [i \in 1..Len(s) |-> RetrievalResult(s[i])]
          /\ qpc' = "analyze"
          /\ QCalled("index.query", TRUE)
          /\ UNCHANGED qerr
       \/ /\ QFail("similarity_search")
          /\ QCalled("index.query", FALSE)
          /\ UNCHANGED <<query_response, retrieved>>
    /\ UNCHANGED <<req, llmCalls, context, llmText, analysis, response, logErr,
                   returned, queries>>
    /\ UNCHANGED <<ivars, stores, dvars, uvars, fvars>>

\* lines 143-151: the response object, or the validation error of line 144
Assemble(a) ==
    \/ /\ ResponseValid(a)
       /\ response' = QueryResponse(a, retrieved)
       /\ qpc' = "log"
       /\ UNCHANGED qerr
    \/ /\ ~ResponseValid(a)
       /\ QFail("response_validation")
       /\ UNCHANGED response

\* lines 122-130 and analyze_query_and_context: generate_content, the parse,
\* then lines 141-151
Analyze ==
    /\ qpc = "analyze"
    /\ UseLLM(req, retrieved)
    /\ llmCalls' = llmCalls + 1
    /\ context' = _prepare_context(retrieved)
    /\ \/ \E text \in LLMTexts :
            /\ llmText' = text
            /\ analysis' = _parse_llm_response(text)
            /\ Assemble(_parse_llm_response(text))
            /\ QCalled("generate_content", TRUE)
       \/ /\ QFail("generate_content")
          /\ QCalled("generate_content", FALSE)
          /\ UNCHANGED <<llmText, analysis, response>>
    /\ UNCHANGED <<req, query_response, retrieved, logErr, returned, queries>>
    /\ UNCHANGED <<ivars, stores, dvars, uvars, fvars>>

\* lines 131-139, then lines 141-151
SkipAnalysis ==
    /\ qpc = "analyze"
    /\ ~UseLLM(req, retrieved)
    /\ analysis' = BasicAnalysis
    /\ Assemble(BasicAnalysis)
    /\ UNCHANGED qcalls
    /\ UNCHANGED <<req, query_response, retrieved, llmCalls, context, llmText, logErr,
                   returned, queries>>
    /\ UNCHANGED <<ivars, stores, dvars, uvars, fvars>>

\* log_query raising out of its try block (the except of lines 80-82 removed)
LogQuery_raising ==
    /\ qpc = "log"
    /\ \/ /\ queries' = Append(queries, [num_results |-> Len(retrieved),
                                         domain |-> req.domain])
          /\ qpc' = "done"
          /\ returned' = response
          /\ QCalled("log_query", TRUE)
          /\ UNCHANGED <<logErr, qerr>>
       \/ /\ QFail("log_query")
          /\ QCalled("log_query", FALSE)
          /\ logErr' = "insert_one"
          /\ UNCHANGED <<queries, returned>>
    /\ UNCHANGED <<req, query_response, retrieved, llmCalls, context, llmText, analysis,
                   response>>
    /\ UNCHANGED <<ivars, stores, dvars, uvars, fvars>>

\* log_query with num_results taken from the request's max_results
LogQuery_max_results ==
    /\ qpc = "log"
    /\ \/ /\ queries' = Append(queries, [num_results |-> req.max_results,
                                         domain |-> req.domain])
          /\ QCalled("log_query", TRUE)
          /\ UNCHANGED logErr
       \/ /\ logErr' = "insert_one"
          /\ QCalled("log_query", FALSE)
          /\ UNCHANGED queries
    /\ qpc' = "done"
    /\ returned' = response
    /\ UNCHANGED <<req, query_response, retrieved, llmCalls, context, llmText, analysis,
                   response, qerr>>
    /\ UNCHANGED <<ivars, stores, dvars, uvars, fvars>>

\* lines 153-161: log_query (insert_one, its failure swallowed), then return
LogQuery ==
    /\ qpc = "log"
    /\ \/ /\ queries' = Append(queries, [num_results |-> Len(retrieved),
                                         domain |-> req.domain])
          /\ QCalled("log_query", TRUE)
          /\ UNCHANGED logErr
       \/ /\ logErr' = "insert_one"
          /\ QCalled("log_query", FALSE)
          /\ UNCHANGED queries
    /\ qpc' = "done"
    /\ returned' = response
    /\ UNCHANGED <<req, query_response, retrieved, llmCalls, context, llmText, analysis,
                   response, qerr>>
    /\ UNCHANGED <<ivars, stores, dvars, uvars, fvars>>

QueryDocuments ==
    \/ QueryStart
    \/ QueryEmbedding
    \/ SimilaritySearch
    \/ Analyze
    \/ SkipAnalysis
    \/ LogQuery

QInit ==
    /\ qpc = "idle"
    /\ req = NoRequest
    /\ qcalls = <<>>
    /\ query_response = NoQueryResponse
    /\ retrieved = <<>>
    /\ llmCalls = 0
    /\ context = <<>>
    /\ llmText = NoText
    /\ analysis = NoAnalysis
    /\ response = NoResponse
    /\ logErr = "none"
    /\ qerr = "none"
    /\ returned = NoResponse
    /\ queries = <<>>

-----------------------------------------------------------------------------
vars == <<ivars, stores, dvars, qvars, uvars, fvars>>

Init ==
    /\ clock = 0
    /\ pc = [p \in Procs |-> "idle"]
    /\ run = [p \in Procs |-> NoRun]
    /\ batch_i = [p \in Procs |-> 0]
    /\ upserts = [p \in Procs |-> <<>>]
    /\ calls = [p \in Procs |-> <<>>]
    /\ err = [p \in Procs |-> "none"]
    /\ cleanupErr = [p \in Procs |-> "none"]
    /\ attempted = [p \in Procs |-> {}]
    /\ raised = [p \in Procs |-> "none"]
    /\ result = [p \in Procs |-> NoId]
    /\ documents = <<>>
    /\ chunks = {}
    /\ vindex = {}
    /\ dpc = "idle"
    /\ dtarget = NoId
    /\ dresult = "none"
    /\ dquiet = FALSE
    /\ upload_response = [p \in Procs |-> NoHTTPResponse]
    /\ chunking = NoChunking
    /\ QInit

Next ==
    \/ \E p \in Procs : ProcessDocument(p)
    \/ \E p \in Procs : UploadDocument(p)
    \/ DeleteDocument

Spec == Init /\ [][Next]_vars

\* The stores after the ingestion runs in Done have each committed a.pdf with
\* one chunk, in the order p1, p2: the states queries are checked from.
Committed(Done) ==
    LET t(p) == IF p = "p1" \/ "p1" \notin Done THEN 0 ELSE 1
        id(p) == DocumentId("a.pdf", t(p))
        rec(p) == [document_id |-> id(p), filename |-> "a.pdf",
                   domain |-> "insurance", n |-> 1]
        order == IF Done = {} THEN <<>>
                 ELSE IF Done = Procs THEN <<"p1", "p2">>
                 ELSE <<CHOOSE p \in Done : TRUE>>
    IN  /\ clock = Cardinality(Done)
        /\ pc = [p \in Procs |-> IF p \in Done THEN "done" ELSE "idle"]
        /\ run = [p \in Procs |-> IF p \in Done THEN rec(p) ELSE NoRun]
        /\ batch_i = [p \in Procs |-> IF p \in Done THEN BatchSize ELSE 0]
        /\ upserts = [p \in Procs |-> IF p \in Done THEN <<[first |-> 0, last |-> 0, len |-> 1]>>
                                 ELSE <<>>]
        /\ calls = [p \in Procs |->
                     IF p \in Done
                     THEN CallsBeforeUpsert
                            \o <<Returned("embed_content"),
                                 Returned("index.upsert"),
                                 Returned("store_document_chunks"),
                                 Returned("update_document_processed_status")>>
                     ELSE <<>>]
        /\ err = [p \in Procs |-> "none"]
        /\ cleanupErr = [p \in Procs |-> "none"]
        /\ attempted = [p \in Procs |-> {}]
        /\ raised = [p \in Procs |-> "none"]
        /\ result = [p \in Procs |-> IF p \in Done THEN id(p) ELSE NoId]
        /\ documents = [k \in 1..Len(order) |->
                          [NewDocumentMetadata(rec(order[k]))
                             EXCEPT !.processed = TRUE]]
        /\ chunks = UNION {ChunkRecords(id(p), 0, 1) : p \in Done}
        /\ vindex = UNION {VectorEntries(id(p), 0, 1) : p \in Done}

InitQuery ==
    /\ \E Done \in {{}, {"p1"}, Procs} : Committed(Done)
    /\ dpc = "idle"
    /\ dtarget = NoId
    /\ dresult = "none"
    /\ dquiet = FALSE
    /\ upload_response = [p \in Procs |-> NoHTTPResponse]
    /\ chunking = NoChunking
    /\ QInit

NextQuery == QueryDocuments

SpecQuery == InitQuery /\ [][NextQuery]_vars

\* line 32 when time.time() is no finer than the spacing of two calls: the
\* next call may read the value the previous one read
StartCoarse(p) ==
    /\ pc[p] = "idle"
    /\ \E u \in Uploads : run' = [run EXCEPT ![p] = NewRun(u, clock)]
    /\ clock' \in {clock, clock + 1}
    /\ pc' = [pc EXCEPT ![p] = "extract"]
    /\ UNCHANGED <<batch_i, upserts, calls, err, cleanupErr, attempted, raised,
                   result>>
    /\ UNCHANGED <<stores, dvars, qvars, uvars, fvars>>

\* two process_document calls whose clock readings may coincide
NextSameClock == \E p \in Procs : StartCoarse(p) \/ ProcessSteps(p)

SpecSameClock == Init /\ [][NextSameClock]_vars

\* one process_document call, of a document of at most MaxSmallChunks chunks,
\* alongside one query_documents request
MaxSmallChunks == 1

NextConcurrent ==
    \/ ProcessDocument("p1") /\ run'["p1"].n <= MaxSmallChunks
    \/ QueryDocuments

SpecConcurrent == Init /\ [][NextConcurrent]_vars

\* create_chunks alone, on every splitter output of SplitTexts
NextChunks == SplitText \/ CreateChunksCall

SpecChunks == Init /\ [][NextChunks]_vars

\* upsert_embeddings alone, for every number of chunk/embedding pairs up to
\* MaxVectors: "p1" has stored its document record and computed n embeddings
MaxVectors == 201

InitUpsert ==
    /\ \E n \in 0..MaxVectors :
          /\ run = [p \in Procs |->
                     IF p = "p1"
                     THEN [NewRun([filename |-> "a.pdf", domain |-> "insurance"], 0)
                             EXCEPT !.n = n]
                     ELSE NoRun]
          /\ documents =
                <<NewDocumentMetadata(
                    NewRun([filename |-> "a.pdf", domain |-> "insurance"], 0))>>
          /\ calls = [p \in Procs |->
                       IF p = "p1"
                       THEN CallsBeforeUpsert
                              \o (IF n > 0 THEN <<Returned("embed_content")>>
                                           ELSE <<>>)
                       ELSE <<>>]
    /\ clock = 1
    /\ pc = [p \in Procs |-> IF p = "p1" THEN "upsert_embeddings" ELSE "idle"]
    /\ batch_i = [p \in Procs |-> 0]
    /\ upserts = [p \in Procs |-> <<>>]
    /\ err = [p \in Procs |-> "none"]
    /\ cleanupErr = [p \in Procs |-> "none"]
    /\ attempted = [p \in Procs |-> {}]
    /\ raised = [p \in Procs |-> "none"]
    /\ result = [p \in Procs |-> NoId]
    /\ chunks = {}
    /\ vindex = {}
    /\ dpc = "idle"
    /\ dtarget = NoId
    /\ dresult = "none"
    /\ dquiet = FALSE
    /\ upload_response = [p \in Procs |-> NoHTTPResponse]
    /\ chunking = NoChunking
    /\ QInit

NextUpsert == UpsertEmbeddings("p1")

SpecUpsert == InitUpsert /\ [][NextUpsert]_vars

-----------------------------------------------------------------------------
(* Claims about process_document and delete_document, checked under Spec *)

RunOf(id) == {p \in Procs : pc[p] # "idle" /\ run[p].document_id = id}

\* C1: a document record is processed only once the run that created it has
\* sent every upsert batch, stored its chunk records and executed the status
\* update (it is unprocessed from its creation until then), and a processed
\* record never becomes unprocessed while a record of that identity exists.
C1_ProcessedOnlyAfterStores ==
    /\ [](\A r \in Records(documents) :
            r.processed =>
                \E p \in RunOf(r.document_id) :
                    /\ pc[p] = "done"
                    /\ batch_i[p] >= run[p].n)
    /\ [][\A r \in Records(documents) :
            r.processed =>
                \A r2 \in Records(documents') :
                    r2.document_id = r.document_id => r2.processed]_vars

\* C1 witness: a multi-batch document has been committed
C1_Witness ==
    \E r \in Records(documents), p \in Procs :
        /\ r.processed
        /\ run[p].document_id = r.document_id
        /\ run[p].n = MaxChunks
        /\ VectorEntries(r.document_id, 0, MaxChunks) \subseteq vindex
        /\ ChunkRecords(r.document_id, 0, MaxChunks) \subseteq chunks

\* C2 (as claimed): a failed run has attempted both the document-store delete
\* and the vector-index delete before its error reaches the caller.
C2_BothDeletesAttempted ==
    \A p \in Procs :
        pc[p] = "failed" =>
            {"delete_document", "delete_document_embeddings"} \subseteq attempted[p]

StepErrors ==
    {"unsupported_file_type", "extract", "store_document_metadata",
     "create_chunks", "create_embeddings", "upsert_embeddings",
     "store_document_chunks", "update_document_processed_status"}

\* C3: the error a failed run delivers is the error of the step that failed,
\* never the error of a compensation delete, and a run that had a failing step
\* returns no document identity; a run that returns one had no failing step.
C3_OriginalErrorDelivered ==
    \A p \in Procs :
        /\ pc[p] = "failed" =>
              /\ raised[p] = err[p]
              /\ raised[p] \in StepErrors
              /\ result[p] = NoId
        /\ err[p] # "none" => result[p] = NoId
        /\ pc[p] = "done" =>
              /\ err[p] = "none"
              /\ raised[p] = "none"
              /\ result[p] = run[p].document_id

\* C3 witness: a run failed and one of its compensation deletes failed too
C3_Witness ==
    \E p \in Procs :
        /\ pc[p] = "failed"
        /\ cleanupErr[p] # "none"
        /\ err[p] = "upsert_embeddings"

\* C10 (as claimed): every chunk record and every vector-index entry has a
\* parent document record.
C10_ParentExists ==
    /\ \A c \in chunks :
          \E r \in Records(documents) : r.document_id = c.document_id
    /\ \A e \in vindex :
          \E r \in Records(documents) : r.document_id = e.document_id


-----------------------------------------------------------------------------
(* Claims about query_documents and the response parser, checked under     *)
(* SpecQuery                                                                *)

\* the generative model returned a text to analyze_query_and_context
Generated == llmCalls > 0 /\ qerr # "generate_content"

\* C4 (as claimed): with explanation requested and at least one chunk
\* retrieved, a failing generative-model call does not fail the request.
C4_GenerationFailureDegrades ==
    (req.include_explanation /\ retrieved # <<>> /\ qpc = "failed")
    => qerr # "generate_content"

Opens(text) == {i \in 1..Len(text) : text[i] = LB}
Closes(text) == {i \in 1..Len(text) : text[i] = RB}
Lowest(S) == CHOOSE i \in S : \A j \in S : i <= j
Highest(S) == CHOOSE i \in S : \A j \in S : j <= i

\* no '{', no '}', the last '}' before the first '{', or a brace-delimited
\* substring that is not valid JSON
Malformed(text) ==
    \/ Opens(text) = {}
    \/ Closes(text) = {}
    \/ Highest(Closes(text)) < Lowest(Opens(text))
    \/ ~JsonLoadsOk(SubSeq(text, Lowest(Opens(text)), Highest(Closes(text))))

\* C5: for every malformed model output the parser returns the fallback:
\* answer "Error processing response", reasoning "Unable to parse LLM
\* response", confidence 0.0, no evidence, no conditions, and the single
\* limitation "Response parsing failed".
C5_MalformedGivesFallback ==
    (Generated /\ Malformed(llmText)) =>
        /\ analysis.answer = Str("Error processing response")
        /\ analysis.decision_rationale =
              [reasoning |-> "Unable to parse LLM response",
               confidence_score |-> 0,
               supporting_evidence |-> <<>>,
               conditions |-> <<>>,
               limitations |-> <<"Response parsing failed">>]

\* C5 witness: a parsed output holding both braces, the last '}' before the
\* first '{'
C5_Witness ==
    /\ Generated
    /\ qpc = "done"
    /\ Opens(llmText) # {}
    /\ Closes(llmText) # {}
    /\ Highest(Closes(llmText)) < Lowest(Opens(llmText))

\* C6 (as claimed): whatever text the model returns, the query returns a
\* response: no parsing or type-coercion failure reaches the caller.
C6_NoCoercionFailureReachesCaller ==
    Generated => qpc # "failed"

EmptyRationaleLists(d) ==
    /\ d.confidence_score = 0
    /\ d.supporting_evidence = <<>>
    /\ d.conditions = <<>>
    /\ d.limitations = <<>>

\* C7: a query with include_explanation=false never calls the generative
\* model and returns a rationale with confidence 0.0 and empty evidence,
\* condition and limitation lists, whatever was retrieved.
C7_NoExplanationNoModelCall ==
    (qpc # "idle" /\ ~req.include_explanation) =>
        /\ llmCalls = 0
        /\ qpc = "done" =>
              /\ returned.valid
              /\ EmptyRationaleLists(returned.decision_rationale)

\* C7 witness: such a query returned with chunks retrieved
C7_Witness ==
    /\ qpc = "done"
    /\ ~req.include_explanation
    /\ Len(returned.retrieved_chunks) = 2

\* C8: a query whose search returned no result makes no generative-model
\* call and returns an empty retrieved_chunks list.
C8_NoResultsNoModelCall ==
    (qpc \in {"analyze", "log", "done"} /\ retrieved = <<>>) =>
        /\ llmCalls = 0
        /\ qpc = "done" =>
              /\ returned.valid
              /\ returned.retrieved_chunks = <<>>

\* C8 witness: explanation was requested, the index holds vectors, the search
\* returned none, and the query returned
C8_Witness ==
    /\ qpc = "done"
    /\ req.include_explanation
    /\ vindex # {}
    /\ retrieved = <<>>

\* C9: a failing insert of the query log entry never fails the query: the
\* step after the response is assembled always returns, and returns that
\* response unchanged.
C9_LogFailureSwallowed ==
    /\ [](logErr # "none" =>
            /\ qpc = "done"
            /\ qerr = "none"
            /\ returned = response
            /\ returned.valid)
    /\ [][qpc = "log" => (qpc' = "done" /\ returned' = response
                          /\ response' = response)]_vars

\* C9 witness: the log insert failed after the generative model was consulted
C9_Witness ==
    /\ logErr # "none"
    /\ qpc = "done"
    /\ llmCalls = 1
    /\ queries = <<>>


-----------------------------------------------------------------------------
(* Claims about delete_document, checked under Spec *)

\* C11: once delete_document(id) has returned without error, no ingestion of
\* id having been in progress, the document store holds no document record
\* and no chunk record of id and the vector index no entry of id; a delete
\* in which a store's delete raised does not report success.
C11_DeleteRemovesEverything ==
    (dpc = "returned" /\ dresult = "ok" /\ dquiet) =>
        /\ \A r \in Records(documents) : r.document_id # dtarget
        /\ \A c \in chunks : c.document_id # dtarget
        /\ \A e \in vindex : e.document_id # dtarget

\* C11 witness: a committed multi-batch document was deleted
C11_Witness ==
    /\ dpc = "returned"
    /\ dresult = "ok"
    /\ dquiet
    /\ \E p \in Procs :
          /\ pc[p] = "done"
          /\ run[p].document_id = dtarget
          /\ run[p].n = MaxChunks


-----------------------------------------------------------------------------
(* Claims about the search of query_documents, checked under SpecQuery *)

\* C12: the filter sent to the vector index has a domain equality exactly
\* when the request has a domain, a document_id-in-set constraint exactly
\* when the request names document identities, both when both are given, and
\* is omitted (never an empty dictionary) when neither is given.
C12_FilterFollowsRequest ==
    query_response.made =>
        LET f == query_response.filter
            hasDomain == req.domain # NoDomain
            hasIds == req.document_ids.given /\ req.document_ids.ids # <<>>
        IN  /\ f.present <=> (hasDomain \/ hasIds)
            /\ f.present => DOMAIN f.dict # {}
            /\ ~f.present => f.dict = <<>>
            /\ "domain" \in DOMAIN f.dict <=> hasDomain
            /\ hasDomain => f.dict["domain"] = req.domain
            /\ "document_id" \in DOMAIN f.dict <=> hasIds
            /\ hasIds => f.dict["document_id"] = SeqRange(req.document_ids.ids)

\* C12 witness: a search was sent for a request with a domain and identities
C12_Witness ==
    /\ query_response.made
    /\ req.domain # NoDomain
    /\ req.document_ids.ids # <<>>
    /\ DOMAIN query_response.filter.dict = {"domain", "document_id"}

\* C13: retrieved_chunks of every query response is the sequence of matches
\* the index returned: same length, same order, each relevance_score the
\* index's score, on the explanation path and on the retrieval-only path.
C13_ResultsAreTheMatches ==
    qpc = "done" =>
        LET m == query_response.matches
            r == returned.retrieved_chunks
        IN  /\ Len(r) = Len(m)
            /\ \A i \in 1..Len(m) :
                  /\ r[i].chunk_id = m[i].id
                  /\ r[i].relevance_score = m[i].score
                  /\ r[i].metadata = m[i].metadata

\* C13 witness: a response with an analysis carries two matches whose scores
\* differ
C13_Witness ==
    /\ qpc = "done"
    /\ llmCalls = 1
    /\ Len(returned.retrieved_chunks) = 2
    /\ returned.retrieved_chunks[1].relevance_score
         # returned.retrieved_chunks[2].relevance_score


-----------------------------------------------------------------------------
(* Claims about upload_document, checked under Spec *)

\* C14: an upload whose extension is not pdf, docx, eml or msg never reaches
\* process_document, and its caller receives a client error (a 4xx status)
\* that identifies the rejected extension, not a server error.
C14_RejectedUploadIsClientError ==
    \A p \in Procs :
        pc[p] = "rejected" =>
            /\ run[p] = NoRun
            /\ upload_response[p].status_code \in 400..499
            /\ ".txt" \in upload_response[p].detail.extensions

-----------------------------------------------------------------------------
(* Claims about upsert_embeddings, checked under SpecUpsert *)

\* the number of vectors sent by the first b upsert calls of "p1"
RECURSIVE Sent(_)
Sent(b) == IF b = 0 THEN 0 ELSE Sent(b - 1) + upserts["p1"][b].len

\* C15: for n chunk/embedding pairs, upsert_embeddings sends the vectors in
\* consecutive batches in chunk order, each batch of at most 100 vectors and
\* every vector exactly once, in ceil(n/100) upsert calls (one call with all
\* n vectors when 1 <= n <= 100), a later batch never before an earlier one.
C15_BatchesInOrder ==
    LET n == run["p1"].n
        batches == upserts["p1"]
    IN  /\ \A b \in 1..Len(batches) :
              /\ batches[b].len \in 1..100
              /\ batches[b].first = Sent(b - 1)
              /\ batches[b].last = batches[b].first + batches[b].len - 1
              /\ batches[b].last < n
        /\ {e.chunk_index : e \in vindex} = 0..(Sent(Len(batches)) - 1)
        /\ pc["p1"] = "store_chunks" =>
              /\ Sent(Len(batches)) = n
              /\ Cardinality(vindex) = n
              /\ Len(batches) = (n + 99) \div 100
              /\ (n \in 1..100) =>
                    batches = <<[first |-> 0, last |-> n - 1, len |-> n]>>

\* C15 witness: upsert_embeddings returned after three calls
C15_Witness ==
    /\ pc["p1"] = "store_chunks"
    /\ Len(upserts["p1"]) = 3
    /\ upserts["p1"][3].len < 100

-----------------------------------------------------------------------------
(* Claims about document identities, checked under SpecSameClock *)

\* C16: any two ingestions of the same filename, also two that read the same
\* clock value, obtain different document identities.
C16_IdentitiesDiffer ==
    \A p, q \in Procs :
        (/\ p # q
         /\ pc[p] \notin {"idle", "rejected"}
         /\ pc[q] \notin {"idle", "rejected"}
         /\ run[p].filename = run[q].filename)
            => run[p].document_id # run[q].document_id

-----------------------------------------------------------------------------
(* Claims about create_chunks, checked under SpecChunks *)

\* C17: the chunks of a document carry chunk_index 0, 1, ..., n-1 without
\* gap or repeat, chunk i being the i-th segment the splitter returned, and
\* each chunk's metadata chunk_position equals its chunk_index.
C17_ChunkIndexesContiguous ==
    chunking.returned =>
        /\ Len(chunking.document_chunks) = Len(chunking.segments)
        /\ \A k \in 1..Len(chunking.document_chunks) :
              LET c == chunking.document_chunks[k]
              IN  /\ c.chunk_index = k - 1
                  /\ c.content = chunking.segments[k]
                  /\ c.metadata.chunk_position = c.chunk_index

\* C17 witness: a call returned MaxSegments chunks
C17_Witness ==
    /\ chunking.returned
    /\ Len(chunking.document_chunks) = MaxSegments

\* the triples (document identity, ordinal, first 50 characters)
Triples ==
    [document_id : HexDigests, i : 0..MaxSegments,
     prefix : {Take(t, PrefixLen) : t \in Texts}]

\* C18: the chunk identity depends only on (document identity, ordinal,
\* first 50 characters of content): a chunk's identity is the one of its
\* triple, and every triple that differs from it in a component gives a
\* different hash input, hence a different identity.
C18_ChunkIdentityOfTriple ==
    chunking.returned =>
        \A k \in 1..Len(chunking.document_chunks) :
            LET c == chunking.document_chunks[k]
                own == [document_id |-> c.document_id, i |-> c.chunk_index,
                        prefix |-> Take(c.content, PrefixLen)]
            IN  \A t \in Triples :
                    /\ t = own =>
                         c.chunk_id = Md5(HashInput(t.document_id, t.i, t.prefix))
                    /\ t # own =>
                         /\ HashInput(t.document_id, t.i, t.prefix)
                              # HashInput(c.document_id, c.chunk_index, c.content)
                         /\ Md5(HashInput(t.document_id, t.i, t.prefix))
                              # c.chunk_id

\* C18 witness: a call returned a chunk with a two-digit ordinal and a chunk
\* whose content is longer than the 50 characters that enter its identity
C18_Witness ==
    /\ chunking.returned
    /\ \E k \in 1..Len(chunking.document_chunks) :
          chunking.document_chunks[k].chunk_index >= 10
    /\ \E k \in 1..Len(chunking.document_chunks) :
          Len(chunking.document_chunks[k].content) > PrefixLen

-----------------------------------------------------------------------------
(* Claims about the analysis returned by query_documents, checked under
   SpecQuery; confidence scores are in tenths *)

\* C19: every decision rationale returned by query_documents has a
\* confidence_score within [0, 1], whatever number the model's output held.
C19_ConfidenceWithinUnitInterval ==
    qpc = "done" => returned.decision_rationale.confidence_score \in 0..10

\* the filename of the stored document record of an identity
FilenameOf(document_id) ==
    (CHOOSE r \in Records(documents) : r.document_id = document_id).filename

\* C20: in the context block each retrieved result contributes one part, in
\* retrieval order, whose header names the source filename and the relevance
\* score, neighbours joined by "\n---\n"; for a chunk this system ingested
\* the filename shown is the uploaded file's name, not a placeholder.
C20_ContextNamesSourceFile ==
    llmCalls = 1 =>
        /\ Len(context) = 2 * Len(retrieved) - 1
        /\ \A k \in 1..Len(retrieved) :
              LET part == context[2 * k - 1]
              IN  /\ part.document = k
                  /\ part.relevance = Format3f(retrieved[k].relevance_score)
                  /\ part.content = retrieved[k].content
                  /\ part.source = FilenameOf(retrieved[k].document_id)
        /\ \A k \in 1..(Len(retrieved) - 1) : context[2 * k] = "\n---\n"

-----------------------------------------------------------------------------
(* Claims about the steps of process_document, checked under Spec *)

CompensationCalls == {"delete_one", "delete_many", "index.delete"}

\* the forward calls of run p, in order
Forward(p) == SelectSeq(calls[p], LAMBDA c : c.call \notin CompensationCalls)

\* the calls that may follow a returned forward call of a run of n chunks
Following(call, n) ==
    CASE call = "extract" -> {"store_document_metadata"}
      [] call = "store_document_metadata" -> {"create_chunks"}
      [] call = "create_chunks" ->
            IF n > 0 THEN {"embed_content"} ELSE {"store_document_chunks"}
      [] call = "embed_content" -> {"index.upsert"}
      [] call = "index.upsert" -> {"index.upsert", "store_document_chunks"}
      [] call = "store_document_chunks" -> {"update_document_processed_status"}
      [] OTHER -> {}

\* C21: every run of process_document makes its calls in the order extract,
\* store the document record (processed=false), chunk, embed, upsert vectors,
\* store chunk records, set processed=true, each starting only after the
\* previous one succeeded; so a run whose extraction failed, or whose
\* extension is unsupported, never has a document record.
C21_StepsInOrder ==
    \A p \in Procs :
        LET f == Forward(p)
            id == run[p].document_id
        IN  /\ f # <<>> => f[1].call = "extract"
            /\ \A k \in 2..Len(f) :
                  /\ f[k - 1].ok
                  /\ f[k].call \in Following(f[k - 1].call, run[p].n)
            /\ (\E r \in Records(documents) : r.document_id = id) =>
                  [call |-> "store_document_metadata", ok |-> TRUE] \in SeqRange(f)
            /\ (\E r \in Records(documents) : r.document_id = id /\ r.processed) =>
                  [call |-> "update_document_processed_status", ok |-> TRUE]
                     \in SeqRange(f)
            /\ (\E e \in vindex : e.document_id = id) =>
                  [call |-> "embed_content", ok |-> TRUE] \in SeqRange(f)
            /\ (\E c \in chunks : c.document_id = id) =>
                  \E k \in 1..Len(f) : f[k].call = "store_document_chunks"
            /\ err[p] \in {"extract", "unsupported_file_type"} =>
                  \A r \in Records(documents) : r.document_id # id

\* C21 witness: one run committed a two-batch document while the other
\* failed at extraction
C21_Witness ==
    \E p, q \in Procs :
        /\ pc[p] = "done"
        /\ run[p].n = MaxChunks
        /\ Len(Forward(p)) = 8
        /\ err[q] = "extract"
        /\ pc[q] = "failed"

-----------------------------------------------------------------------------
(* Claims about failures in both pipelines, checked under SpecConcurrent *)

\* no call of the log follows a call that raised, those of Allowed excepted,
\* and no call is made twice (index.upsert is made once per batch)
NoRetry(log, Allowed) ==
    /\ \A k \in 1..Len(log) :
          (~log[k].ok /\ log[k].call \notin Allowed) =>
              \A j \in (k + 1)..Len(log) : log[j].call \in Allowed
    /\ \A j, k \in 1..Len(log) :
          (j < k /\ log[j].call = log[k].call) =>
              (log[k].call = "index.upsert" /\ log[j].ok)

\* C22: no external call is retried in either pipeline: once a call of a run
\* of process_document or query_documents has failed it is not repeated and
\* no later forward step of that run is executed; the only calls made
\* afterwards are the compensation deletes of the ingestion.
C22_NoRetry ==
    /\ \A p \in Procs : NoRetry(calls[p], CompensationCalls)
    /\ NoRetry(qcalls, {})
    /\ qpc = "failed" =>
          \/ qcalls # <<>> /\ ~qcalls[Len(qcalls)].ok
          \/ qerr = "response_validation"

\* C22 witness: the ingestion failed when storing its chunk records and
\* compensated, and the query failed at the generative model
C22_Witness ==
    /\ pc["p1"] = "failed"
    /\ err["p1"] = "store_document_chunks"
    /\ calls["p1"][Len(calls["p1"])].call = "index.delete"
    /\ qpc = "failed"
    /\ qerr = "generate_content"

-----------------------------------------------------------------------------
(* Claims about failures of the search stage, checked under SpecQuery *)

\* C23: a failure of the query-embedding call or of the vector-index search
\* is raised to the caller: no response object is returned, no
\* generative-model call is made and no fallback answer is substituted.
C23_RetrievalFailureRaised ==
    qerr \in {"create_query_embedding", "similarity_search"} =>
        /\ qpc = "failed"
        /\ returned = NoResponse
        /\ response = NoResponse
        /\ analysis = NoAnalysis
        /\ llmCalls = 0
        /\ ~qcalls[Len(qcalls)].ok

\* C23 witness: the search failed after the embedding was computed
C23_Witness ==
    /\ qerr = "similarity_search"
    /\ Len(qcalls) = 2
    /\ req.include_explanation

-----------------------------------------------------------------------------
(* Claims about a query alongside an ingestion, checked under SpecConcurrent *)

\* C24: every vector-index entry written by process_document for a document
\* ingested with domain D carries domain = D in its metadata (so a query
\* filtered by domain D can return the document's chunks), and the matches of
\* a query filtered by a domain belong to documents of that domain.
C24_VectorsCarryDomain ==
    /\ \A e \in vindex, r \in Records(documents) :
          r.document_id = e.document_id =>
              /\ "domain" \in DOMAIN VectorMetadata(e)
              /\ VectorMetadata(e)["domain"] = r.domain
    /\ (query_response.made /\ req.domain # NoDomain) =>
          \A k \in 1..Len(query_response.matches) :
              \A r \in Records(documents) :
                  r.document_id = query_response.matches[k].metadata.document_id
                      => r.domain = req.domain

\* C25: a query running alongside ingestions never returns a chunk whose
\* parent document is not committed: every result belongs to a document
\* whose record existed with processed=true at the time of the search.
C25_ResultsOfCommittedDocuments ==
    query_response.made =>
        \A k \in 1..Len(retrieved) :
            retrieved[k].document_id \in query_response.committed

-----------------------------------------------------------------------------
(* Claims about the stores after process_document and delete_document,
   checked under Spec *)

\* a delete request for id arrived while an ingestion of id was running
RacedByDelete(id) == dpc # "idle" /\ dtarget = id /\ ~dquiet

Owned(docs, cs, index, id) ==
    [documents |-> SelectSeq(docs, LAMBDA r : r.document_id = id),
     chunks    |-> {c \in cs : c.document_id = id},
     vectors   |-> {e \in index : e.document_id = id}]

StoredIds(docs, cs, index) ==
    {r.document_id : r \in Records(docs)}
        \cup {c.document_id : c \in cs} \cup {e.document_id : e \in index}

\* the identity whose compensation or delete_document takes this step
Compensating(p) ==
    /\ pc[p] \in {"cleanup_doc", "cleanup_chunks", "cleanup_vectors"}
    /\ pc'[p] # pc[p]

Deleting ==
    /\ dpc \in {"delete_doc", "delete_chunks", "delete_vectors"}
    /\ dpc' # dpc

Untouched(X) ==
    \A id \in (StoredIds(documents, chunks, vindex)
                 \cup StoredIds(documents', chunks', vindex')) \ {X} :
        Owned(documents', chunks', vindex', id) = Owned(documents, chunks, vindex, id)

\* C27: a step of the compensation of a failed process_document run, and a
\* step of delete_document, for identity X leaves every document record,
\* chunk record and vector entry of any other identity as it was.
C27_OtherIdentitiesUntouched ==
    [][ /\ \A p \in Procs : Compensating(p) => Untouched(run[p].document_id)
        /\ Deleting => Untouched(dtarget) ]_vars

\* C27 witness: one run was compensated through its last delete and then
\* deleted again by request, while another document is stored and committed
C27_Witness ==
    \E p \in Procs : \E r \in Records(documents) :
        /\ pc[p] = "failed"
        /\ \E k \in 1..Len(calls[p]) : calls[p][k] = Returned("index.delete")
        /\ dpc = "returned" /\ dresult = "ok" /\ dtarget = run[p].document_id
        /\ r.document_id # run[p].document_id
        /\ r.processed
        /\ Owned(documents, chunks, vindex, r.document_id).chunks # {}
        /\ Owned(documents, chunks, vindex, r.document_id).vectors # {}

-----------------------------------------------------------------------------
(* Claims about the filter and the log of query_documents, checked under
   SpecQuery *)

\* C28: a request whose document_ids is present but an empty list is searched
\* like a request with no document_ids: the filter sent to the index has no
\* document_id constraint, it is the filter of the same request without the
\* field, and the entries it admits are all those the domain filter admits.
C28_EmptyListIsNoConstraint ==
    (query_response.made /\ req.document_ids = DocumentIds(<<>>)) =>
        LET f == query_response.filter
            admitted == {e \in vindex : Matches(e, f)}
            inDomain == {e \in vindex :
                           req.domain # NoDomain =>
                               /\ "domain" \in DOMAIN VectorMetadata(e)
                               /\ VectorMetadata(e)["domain"] = req.domain}
        IN  /\ "document_id" \notin DOMAIN f.dict
            /\ f = SearchFilter([req EXCEPT !.document_ids = NoDocumentIds])
            /\ admitted = inDomain
            /\ \A k \in 1..Len(retrieved) :
                  \E e \in inDomain : e.id = retrieved[k].chunk_id

\* C28 witness: a search with an empty list and no domain returned chunks of
\* two different documents
C28_Witness ==
    /\ query_response.made
    /\ req.document_ids = DocumentIds(<<>>)
    /\ req.domain = NoDomain
    /\ \E i, j \in 1..Len(retrieved) :
          retrieved[i].document_id # retrieved[j].document_id

\* the positions of qcalls at which log_query was called
LogAttempts == {k \in 1..Len(qcalls) : qcalls[k].call = "log_query"}

\* C29: a run of query_documents attempts at most one query log entry, only
\* once the response object is assembled, as its last call, and the entry's
\* num_results is the length of the retrieved_chunks of the response that is
\* returned; a query that fails at the embedding, the search or the generation
\* attempts none and writes none.
C29_OneLogEntryAfterResponse ==
    /\ Cardinality(LogAttempts) <= 1
    /\ Len(queries) <= Cardinality(LogAttempts)
    /\ LogAttempts # {} =>
          /\ LogAttempts = {Len(qcalls)}
          /\ response.valid
          /\ qpc = "done"
          /\ returned = response
    /\ queries # <<>> =>
          /\ qcalls[Len(qcalls)] = Returned("log_query")
          /\ queries[1].num_results = Len(returned.retrieved_chunks)
    /\ (qpc = "failed" /\ qerr \in {"create_query_embedding", "similarity_search",
                                      "generate_content"}) =>
          /\ LogAttempts = {}
          /\ queries = <<>>

\* C29 witness: a query that consulted the model returned one chunk although
\* two were allowed, and its log entry was written
C29_Witness ==
    /\ qpc = "done"
    /\ llmCalls = 1
    /\ req.max_results = 2
    /\ Len(returned.retrieved_chunks) = 1
    /\ Len(queries) = 1
    /\ queries[1].num_results = 1

-----------------------------------------------------------------------------
(* Claims about a document that chunks into nothing, checked under Spec *)

CallsOf(p) == {calls[p][k] : k \in 1..Len(calls[p])}
CallNames(p) == {c.call : c \in CallsOf(p)}

\* create_chunks of run p returned the empty list
ZeroChunkRun(p) == run[p].n = 0 /\ Returned("create_chunks") \in CallsOf(p)

\* C30: for a document that extracts but yields zero chunks, process_document
\* makes no embedding call and no index upsert call, still calls
\* store_document_chunks (with the empty list), and sets processed=true only
\* after that call returned; if that call fails the status is never set and
\* the run ends with the compensation attempted and an error raised.
C30_ZeroChunkDocument ==
    \A p \in Procs : ZeroChunkRun(p) =>
        /\ "embed_content" \notin CallNames(p)
        /\ "index.upsert" \notin CallNames(p)
        /\ upserts[p] = <<>>
        /\ (pc[p] \in {"update_status", "done"}
                \/ "update_document_processed_status" \in CallNames(p)
                \/ \E r \in Records(documents) :
                       r.document_id = run[p].document_id /\ r.processed)
              => Returned("store_document_chunks") \in CallsOf(p)
        /\ (pc[p] \in {"done", "failed"} /\ err[p] \in {"none", "store_document_chunks"})
              => "store_document_chunks" \in CallNames(p)
        /\ [call |-> "store_document_chunks", ok |-> FALSE] \in CallsOf(p) =>
              /\ err[p] = "store_document_chunks"
              /\ "update_document_processed_status" \notin CallNames(p)
              /\ pc[p] \in {"cleanup_doc", "cleanup_chunks", "cleanup_vectors", "failed"}
              /\ result[p] = NoId
              /\ \A r \in Records(documents) :
                    r.document_id = run[p].document_id => ~r.processed
              /\ pc[p] = "failed" =>
                    /\ raised[p] # "none"
                    /\ "delete_document" \in attempted[p]
                    /\ "delete_one" \in CallNames(p)

\* C30 witness: one zero-chunk run committed and another failed at
\* store_document_chunks and was compensated
C30_Witness ==
    \E p, q \in Procs :
        /\ ZeroChunkRun(p) /\ pc[p] = "done"
        /\ \E r \in Records(documents) :
              r.document_id = run[p].document_id /\ r.processed
        /\ ZeroChunkRun(q) /\ pc[q] = "failed"
        /\ err[q] = "store_document_chunks"

====
